---- MODULE Spec2Model ----
(***************************************************************************)
(* The dispatch engine of deno-api-server: Router.Route fills the static   *)
(* registry, Router.Run installs the request callback, and the callback    *)
(* resolves a request to a registered entry, runs verify, decodes the      *)
(* body, calls the handler, encodes the result, runs sign and login, and   *)
(* maps every failure to a response.  The callback is an async function:   *)
(* it runs atomically from one await to the next, so every action below    *)
(* is one such run.                                                        *)
(***************************************************************************)
EXTENDS Integers, Sequences, FiniteSets, Bags, TLC

VARIABLES
    DEFAULT_HEADERS,    \* Router.#DEFAULT_HEADERS, a plain object: name -> value
    ROUTER_MAP,         \* Router.#ROUTER_MAP: path -> method -> entry (own properties)
    serving,            \* Router.Run has installed the callback
    CONFIGURED,         \* history: the template as Router.Run configured it
    nRoutes,            \* number of Router.Route calls made so far
    registered,         \* history: <<path, method, handler>> of every entry Route stored
    inflight,           \* bag of requests suspended at an await
    returned,           \* <<>> or <<r>>: the request whose callback has just completed
    variant,            \* which of the two sources runs: "hooks" (part_000) or "auth" (mod.js)
    AUTH_VERIFY,        \* Router.#AUTH_VERIFY of mod.js
    AUTH_SIGN,          \* Router.#AUTH_SIGN of mod.js
    lastRoute           \* history: <<>> or <<c>>: the latest Router.Route call and its outcome

vars ==
    <<DEFAULT_HEADERS, ROUTER_MAP, serving, CONFIGURED, nRoutes, registered, inflight, returned,
      variant, AUTH_VERIFY, AUTH_SIGN, lastRoute>>

----------------------------------------------------------------------------
(* Bounds *)

\* number of Router.Route calls a run explores
MaxRoutes == 1

\* number of Router.Route calls a run of the re-registration specification explores
MaxReRoutes == 2

\* number of requests in flight at once in the concurrent specification
MaxInFlight == 2

----------------------------------------------------------------------------
(* JavaScript values: [t |-> kind, v |-> text] *)

Undefined == [t |-> "undefined", v |-> ""]
Null == [t |-> "null", v |-> ""]
Fn(id) == [t |-> "function", v |-> id]
Str(s) == [t |-> "string", v |-> s]

\* typeof x
TypeOf(x) ==
    CASE x.t = "bigint" -> "bigint"
      [] x.t = "string" -> "string"
      [] x.t = "undefined" -> "undefined"
      [] x.t = "boolean" -> "boolean"
      [] x.t = "number" -> "number"
      [] x.t = "function" -> "function"
      [] x.t = "symbol" -> "symbol"
      [] OTHER -> "object"     \* null, String objects, Response objects, records, arrays

\* ToBoolean(x), as used by `if (x)`, `!x` and `x ? a : b`
Truthy(x) ==
    CASE x.t \in {"undefined", "null"} -> FALSE
      [] x.t \in {"string", "number", "bigint"} -> x.v \notin {"", "0"}
      [] x.t = "boolean" -> x.v = "true"
      [] OTHER -> TRUE

----------------------------------------------------------------------------
(* Header objects: functions from header name to value *)

\* the Headers class stores names in lower case
Lower(n) ==
    CASE n = "Access-Control-Allow-Origin" -> "access-control-allow-origin"
      [] n = "Access-Control-Allow-Headers" -> "access-control-allow-headers"
      [] n = "Access-Control-Allow-Methods" -> "access-control-allow-methods"
      [] n = "Access-Control-Allow-Credentials" -> "access-control-allow-credentials"
      [] n = "Access-Control-Expose-Headers" -> "access-control-expose-headers"
      [] n = "Access-Control-Max-Age" -> "access-control-max-age"
      [] n = "Content-Type" -> "content-type"
      [] n = "Authorization" -> "authorization"
      [] OTHER -> n

EmptyObject == [n \in {} |-> ""]

\* obj[name] = value on a plain object (also one step of Object.assign)
SetProp(obj, name, value) ==
    [n \in DOMAIN obj \cup {name} |-> IF n = name THEN value ELSE obj[n]]

\* new Headers(obj): the entries of a plain object, names lower-cased
HeadersOf(obj) ==
    [n \in {Lower(k) : k \in DOMAIN obj} |->
        obj[CHOOSE k \in DOMAIN obj : Lower(k) = n]]

\* a clone that drops the entries
StructuredCloneEmpty(obj) == EmptyObject

\* structuredClone(obj): a new object with the same entries
StructuredClone(obj) == [n \in DOMAIN obj |-> obj[n]]

\* static #DEFAULT_HEADERS initialiser
InitialDefaultHeaders ==
    [n \in {"Access-Control-Allow-Origin", "Access-Control-Allow-Headers",
            "Access-Control-Allow-Methods", "Access-Control-Allow-Credentials"} |->
        IF n = "Access-Control-Allow-Credentials" THEN "true" ELSE "*"]

\* static #DEFAULT_HEADERS initialiser of mod.js
AuthInitialDefaultHeaders ==
    [n \in {"Access-Control-Allow-Origin", "Access-Control-Allow-Headers",
            "Access-Control-Allow-Methods", "Access-Control-Expose-Headers",
            "Access-Control-Allow-Credentials", "Access-Control-Max-Age"} |->
        CASE n = "Access-Control-Allow-Origin" -> "*"
          [] n = "Access-Control-Allow-Headers" ->
                "Origin, Referer, Content-Type, Content-SHA256, Content-Filename, Content-Duration, Accept, Authorization, User-Agent, Cache-Control, X-Api-Key"
          [] n = "Access-Control-Allow-Methods" -> "GET, OPTION, POST, PUT, DELETE, PATCH, TEST"
          [] n = "Access-Control-Expose-Headers" -> "Authorization, Content-SHA256"
          [] n = "Access-Control-Allow-Credentials" -> "true"
          [] OTHER -> "300"]

\* a default_headers option an application may pass to Router.Run
CustomDefaultHeaders ==
    [n \in {"Access-Control-Allow-Origin"} |-> "https://app.example"]

----------------------------------------------------------------------------
(* Thrown values *)

\* new CustomError(message, httpStatusCode = 400); status 0 stands for an omitted argument
CustomError(message, httpStatusCode) ==
    [t |-> "CustomError", message |-> message,
     status |-> IF httpStatusCode = 0 THEN 400 ELSE httpStatusCode]

\* new Error(message) and the TypeError the runtime raises
Error(message) == [t |-> "Error", message |-> message, status |-> 0]

\* `throw null`: a thrown value that is not an object
ThrownNull == [t |-> "null", message |-> "", status |-> 0]

NoError == [t |-> "none", message |-> "", status |-> 0]

\* what a hook or a handler may throw
Throwables ==
    {CustomError("Forbidden", 403), CustomError("Bad input", 0),
     CustomError("Nothing here", 204), Error("boom"), ThrownNull}

----------------------------------------------------------------------------
(* Response objects *)

NoResponse == [status |-> 0, body |-> "", headers |-> EmptyObject]

\* new Response(body, {status, headers}); body "" is the null body.
\* ok = FALSE when the constructor throws: RangeError for a status outside
\* 200..599, TypeError for a body given with a null-body status.
ResponseCtor(body, bodyIsNull, status, headers) ==
    IF status < 200 \/ status > 599
    THEN [ok |-> FALSE, response |-> NoResponse]
    ELSE IF ~bodyIsNull /\ status \in {204, 205, 304}
    THEN [ok |-> FALSE, response |-> NoResponse]
    ELSE [ok |-> TRUE,
          response |-> [status |-> status, body |-> body, headers |-> HeadersOf(headers)]]

\* a response object a handler builds itself: new Response("made", {status: 202})
HandlerMadeResponse == [status |-> 202, body |-> "made", headers |-> EmptyObject]

----------------------------------------------------------------------------
(* The registry *)

\* names every plain object inherits from Object.prototype
ObjectPrototypeKeys == {"constructor", "toString", "valueOf", "hasOwnProperty", "__proto__"}

\* the { handler, verify, sign, login, raw } literal Route stores
MethodEntry(handler, verify, sign, login, raw) ==
    [present |-> TRUE, handler |-> handler, verify |-> verify, sign |-> sign,
     login |-> login, raw |-> raw]

\* an inherited member (a function of Object.prototype): truthy, and its
\* .handler, .verify, .sign and .login are undefined
InheritedMember == MethodEntry(Undefined, Undefined, Undefined, Undefined, Undefined)

\* undefined: the property does not exist
AbsentEntry ==
    [present |-> FALSE, handler |-> Undefined, verify |-> Undefined, sign |-> Undefined,
     login |-> Undefined, raw |-> Undefined]

\* Router.#ROUTER_MAP[path] is truthy
HasPath(M, path) == path \in DOMAIN M \/ path \in ObjectPrototypeKeys

\* Router.#ROUTER_MAP[path][method], a property read that follows the prototype chain
GetEntry(M, path, method) ==
    IF path \in DOMAIN M /\ method \in DOMAIN M[path] THEN M[path][method]
    ELSE IF method \in ObjectPrototypeKeys THEN InheritedMember
    ELSE AbsentEntry

\* option checks that reject every option given and not a function
RouteRejectsGiven(verify, sign, login) ==
    \/ verify # Undefined /\ TypeOf(verify) # "function"
    \/ sign # Undefined /\ TypeOf(sign) # "function"
    \/ login # Undefined /\ TypeOf(login) # "function"

\* the option checks at the head of Route: TRUE when Route throws
RouteRejects(verify, sign, login) ==
    \/ Truthy(verify) /\ TypeOf(verify) # "function"
    \/ Truthy(sign) /\ TypeOf(sign) # "function"
    \/ Truthy(login) /\ TypeOf(login) # "function"

\* the assignments of Route with an entry already stored for the pair kept
RouteInsertKeepFirst(M, path, method, entry) ==
    LET methods == IF path \in DOMAIN M THEN M[path] ELSE EmptyObject
    IN  [p \in DOMAIN M \cup {path} |->
            IF p = path
            THEN [m \in DOMAIN methods \cup {method} |->
                     IF m \in DOMAIN methods THEN methods[m] ELSE entry]
            ELSE M[p]]

\* the two assignments of Route
RouteInsert(M, path, method, entry) ==
    LET methods == IF path \in DOMAIN M THEN M[path] ELSE EmptyObject
    IN  [p \in DOMAIN M \cup {path} |->
            IF p = path
            THEN [m \in DOMAIN methods \cup {method} |->
                     IF m = method THEN entry ELSE methods[m]]
            ELSE M[p]]

----------------------------------------------------------------------------
(* Requests *)

AwaitPcs ==
    {"await_verify", "await_body", "await_handler", "await_sign", "await_login",
     "auth_await_verify", "auth_await_body", "auth_await_handler", "auth_await_sign"}

\* the locals of one run of the callback
NewRequest(method, seg, ctype) ==
    [method |-> method, seg |-> seg, ctype |-> ctype, pc |-> "start", path |-> "",
     payload |-> Null, decoded |-> "no", result |-> Null,
     responseHeaders |-> EmptyObject, responseStatus |-> 0,
     response |-> NoResponse, encoded |-> "no", error |-> NoError, calls |-> <<>>,
     matched |-> AbsentEntry]     \* history: the entry the method check found

\* one invocation of a hook, the body reader or the handler
Call(fn, id, arg, ctx) == [fn |-> fn, id |-> id, arg |-> arg, ctx |-> ctx]

\* the calls of one kind a request has made
CallsOf(r, fn) == {i \in 1..Len(r.calls) : r.calls[i].fn = fn}

\* the route key without its leading slash
RouteKeyBare(seg) == seg

\* const path = "/" + U.pathname.split("/")[1]
RouteKey(seg) == "/" \o seg

\* 201 for every method but GET
DefaultStatusNonGet(method) == IF method = "GET" THEN 200 ELSE 201

\* const responseStatus = req.method === "POST" ? 201 : 200
DefaultStatus(method) == IF method = "POST" THEN 201 ELSE 200

\* the catch block
ErrorMapper(r, e, H) ==
    IF e.t = "CustomError"
    THEN LET H2 == SetProp(H, "Content-Type", "text/plain")   \* Object.assign mutates its target
             c == ResponseCtor(e.message, FALSE, e.status, H2)
         IN  IF c.ok
             THEN [r |-> [r EXCEPT !.pc = "returned", !.error = e, !.response = c.response],
                   H |-> H2]
             ELSE [r |-> [r EXCEPT !.pc = "threw", !.error = e], H |-> H2]
    ELSE IF e.t = "null"
    THEN \* e.message on null raises a TypeError inside the catch block
         [r |-> [r EXCEPT !.pc = "threw", !.error = e], H |-> H]
    ELSE LET c == ResponseCtor(e.message, FALSE, 500, H)
         IN  [r |-> [r EXCEPT !.pc = "returned", !.error = e, !.response = c.response],
              H |-> H]

\* if (entry.login) await entry.login(response, result); return response
LoginStage(r, M, H) ==
    LET entry == GetEntry(M, r.path, r.method)
    IN  IF Truthy(entry.login)
        THEN IF TypeOf(entry.login) = "function"
             THEN [r |-> [r EXCEPT !.pc = "await_login",
                                   !.calls = Append(@, Call("login", entry.login.v,
                                                            "response", r.result))],
                   H |-> H]
             ELSE ErrorMapper(r, Error("login is not a function"), H)
        ELSE [r |-> [r EXCEPT !.pc = "returned"], H |-> H]

\* the sign step handing the hook the handler's result
SignStageResult(r, M, H) ==
    LET entry == GetEntry(M, r.path, r.method)
    IN  IF Truthy(entry.sign)
        THEN IF TypeOf(entry.sign) = "function"
             THEN [r |-> [r EXCEPT !.pc = "await_sign",
                                   !.calls = Append(@, Call("sign", entry.sign.v,
                                                            "response", r.result))],
                   H |-> H]
             ELSE ErrorMapper(r, Error("sign is not a function"), H)
        ELSE LoginStage(r, M, H)

\* if (entry.sign) await entry.sign(response, payload)
SignStage(r, M, H) ==
    LET entry == GetEntry(M, r.path, r.method)
    IN  IF Truthy(entry.sign)
        THEN IF TypeOf(entry.sign) = "function"
             THEN [r |-> [r EXCEPT !.pc = "await_sign",
                                   !.calls = Append(@, Call("sign", entry.sign.v,
                                                            "response", r.payload))],
                   H |-> H]
             ELSE ErrorMapper(r, Error("sign is not a function"), H)
        ELSE LoginStage(r, M, H)

----------------------------------------------------------------------------
(* The response encoder *)

\* what a handler may return
ResultValues ==
    {[t |-> "bigint", v |-> "10n"], Str("hi"), [t |-> "String", v |-> "hi"],
     Null, Undefined, [t |-> "Response", v |-> "made"],
     [t |-> "object", v |-> "record"], [t |-> "object", v |-> "cyclic"],
     [t |-> "boolean", v |-> "true"], [t |-> "boolean", v |-> "false"],
     [t |-> "number", v |-> "7"], Fn("f"), [t |-> "symbol", v |-> "s"]}

\* result.toString() of a bigint: its decimal digits
BigIntToString(x) == IF x.v = "10n" THEN "10" ELSE "0"

\* result?.toString() of a boolean
BooleanToString(x) == IF Truthy(x) THEN "true" ELSE "false"

\* JSON.stringify(result): throws a TypeError on a cyclic structure
JSONStringify(x) ==
    IF x.v = "cyclic"
    THEN [ok |-> FALSE, text |-> "", error |-> Error("Converting circular structure to JSON")]
    ELSE [ok |-> TRUE, text |-> "{\"a\":1}", error |-> NoError]

\* the successful arm of the switch: the Content-Type assignment and the constructor
Encoded(body, bodyIsNull, contentType, headers, status) ==
    LET h == SetProp(headers, "Content-Type", contentType)
    IN  [ok |-> TRUE, headers |-> h, error |-> NoError,
         response |-> ResponseCtor(body, bodyIsNull, status, h).response]

\* the switch with the null arm placed after the object arm
EncodeObjectFirst(result, responseHeaders, responseStatus) ==
    IF TypeOf(result) = "bigint"
    THEN Encoded(BigIntToString(result), FALSE, "text/plain", responseHeaders, responseStatus)
    ELSE IF TypeOf(result) = "string" \/ result.t = "String"
    THEN Encoded(result.v, FALSE, "text/plain", responseHeaders, responseStatus)
    ELSE IF result.t = "Response"
    THEN [ok |-> TRUE, headers |-> responseHeaders, error |-> NoError,
          response |-> HandlerMadeResponse]
    ELSE IF TypeOf(result) = "object"
    THEN IF Truthy(result) /\ JSONStringify(result).ok
         THEN Encoded(JSONStringify(result).text, FALSE, "application/json",
                      responseHeaders, responseStatus)
         ELSE Encoded("", TRUE, "application/json", responseHeaders, responseStatus)
    ELSE IF result.t = "undefined"
    THEN Encoded("", TRUE, "text/plain", responseHeaders, responseStatus)
    ELSE IF TypeOf(result) = "boolean"
    THEN Encoded(BooleanToString(result), FALSE, "text/plain", responseHeaders, responseStatus)
    ELSE [ok |-> FALSE, headers |-> responseHeaders,
          error |-> Error("Return type of controller has no defined processor"),
          response |-> NoResponse]

\* switch (true) { ... } over the handler's result: the first arm that matches wins
Encode(result, responseHeaders, responseStatus) ==
    IF TypeOf(result) = "bigint"
    THEN Encoded(BigIntToString(result), FALSE, "text/plain", responseHeaders, responseStatus)
    ELSE IF TypeOf(result) = "string" \/ result.t = "String"
    THEN Encoded(result.v, FALSE, "text/plain", responseHeaders, responseStatus)
    ELSE IF result.t \in {"null", "undefined"}
    THEN Encoded("", TRUE, "text/plain", responseHeaders, responseStatus)
    ELSE IF result.t = "Response"
    THEN [ok |-> TRUE, headers |-> responseHeaders, error |-> NoError,
          response |-> HandlerMadeResponse]
    ELSE IF TypeOf(result) = "object"
    THEN LET j == JSONStringify(result)
         IN  IF j.ok
             THEN Encoded(j.text, FALSE, "application/json", responseHeaders, responseStatus)
             ELSE [ok |-> FALSE,
                   headers |-> SetProp(responseHeaders, "Content-Type", "application/json"),
                   error |-> j.error, response |-> NoResponse]
    ELSE IF TypeOf(result) = "boolean"
    THEN Encoded(BooleanToString(result), FALSE, "text/plain", responseHeaders, responseStatus)
    ELSE [ok |-> FALSE, headers |-> responseHeaders,
          error |-> Error("Return type of controller has no defined processor"),
          response |-> NoResponse]

----------------------------------------------------------------------------
(* The stages of the callback, each running up to the next await *)

\* the switch over the result, then sign and login
EncodeStage(r, M, H) ==
    LET enc == Encode(r.result, r.responseHeaders, r.responseStatus)
        r2 == [r EXCEPT !.responseHeaders = enc.headers, !.response = enc.response,
                        !.encoded = IF enc.ok THEN "ok" ELSE "failed"]
    IN  IF enc.ok THEN SignStage(r2, M, H) ELSE ErrorMapper(r2, enc.error, H)

\* the handler call made twice over
CallHandlerTwice(r, M, H, arg) ==
    LET entry == GetEntry(M, r.path, r.method)
    IN  IF TypeOf(entry.handler) = "function"
        THEN [r |-> [r EXCEPT !.pc = "await_handler",
                              !.calls = Append(Append(@, Call("handler", entry.handler.v,
                                                              arg, r.payload)),
                                               Call("handler", entry.handler.v,
                                                    arg, r.payload))],
              H |-> H]
        ELSE ErrorMapper(r, Error("handler is not a function"), H)

\* result = await entry.handler(arg, { payload, req })
CallHandler(r, M, H, arg) ==
    LET entry == GetEntry(M, r.path, r.method)
    IN  IF TypeOf(entry.handler) = "function"
        THEN [r |-> [r EXCEPT !.pc = "await_handler",
                              !.calls = Append(@, Call("handler", entry.handler.v,
                                                       arg, r.payload))],
              H |-> H]
        ELSE ErrorMapper(r, Error("handler is not a function"), H)

\* the switch whose default arm does not call the handler
DecodeStageNoDefault(r, M, H) ==
    IF r.method = "GET" THEN CallHandler(r, M, H, "query")
    ELSE IF r.ctype \in {"application/json", "text/plain", "multipart/form-data"}
    THEN [r |-> [r EXCEPT !.pc = "await_body",
                          !.calls = Append(@, Call("decode", r.ctype, "req", Undefined))],
          H |-> H]
    ELSE EncodeStage(r, M, H)

\* the switch over the content-type header applied to GET requests too
DecodeStageNoGet(r, M, H) ==
    IF r.ctype \in {"application/json", "text/plain", "multipart/form-data"}
    THEN [r |-> [r EXCEPT !.pc = "await_body",
                          !.calls = Append(@, Call("decode", r.ctype, "req", Undefined))],
          H |-> H]
    ELSE CallHandler(r, M, H, "req")

\* the GET branch and the switch over the content-type header
DecodeStage(r, M, H) ==
    IF r.method = "GET" THEN CallHandler(r, M, H, "query")
    ELSE IF r.ctype \in {"application/json", "text/plain", "multipart/form-data"}
    THEN [r |-> [r EXCEPT !.pc = "await_body",
                          !.calls = Append(@, Call("decode", r.ctype, "req", Undefined))],
          H |-> H]
    ELSE CallHandler(r, M, H, "req")

\* if (entry.verify) payload = await entry.verify(req)
VerifyStage(r, M, H) ==
    LET entry == GetEntry(M, r.path, r.method)
    IN  IF Truthy(entry.verify)
        THEN IF TypeOf(entry.verify) = "function"
             THEN [r |-> [r EXCEPT !.pc = "await_verify",
                                   !.calls = Append(@, Call("verify", entry.verify.v,
                                                            "req", Undefined))],
                   H |-> H]
             ELSE ErrorMapper(r, Error("verify is not a function"), H)
        ELSE DecodeStage(r, M, H)

\* the callback from its first line to its first await or return
Start(r0, M, H) ==
    LET path == RouteKey(r0.seg)
        r == [r0 EXCEPT !.path = path]
    IN  IF r.method = "OPTIONS"
        THEN [r |-> [r EXCEPT !.pc = "returned",
                              !.response = ResponseCtor("", TRUE, 200, H).response],
              H |-> H]
        ELSE IF ~HasPath(M, path)
        THEN [r |-> [r EXCEPT !.pc = "returned",
                              !.response = ResponseCtor("Request path " \o path \o " does not exist",
                                                        FALSE, 404, H).response],
              H |-> H]
        ELSE IF ~GetEntry(M, path, r.method).present
        THEN [r |-> [r EXCEPT !.pc = "returned",
                              !.response = ResponseCtor("Request method " \o r.method
                                                            \o " does not exist on path " \o path,
                                                        FALSE, 405, H).response],
              H |-> H]
        ELSE VerifyStage([r EXCEPT !.responseHeaders = StructuredClone(H),
                                   !.responseStatus = DefaultStatus(r.method),
                                   !.matched = GetEntry(M, path, r.method)], M, H)

----------------------------------------------------------------------------
(* The callback of mod.js: one process-wide verify hook and one process-wide
   sign hook, switched on per route by the entry's verify and sign flags.  A is
   [verify |-> Router.#AUTH_VERIFY, sign |-> Router.#AUTH_SIGN]; the local
   `user` is kept in the request's payload field. *)

\* if (entry.sign && Router.#AUTH_SIGN) await Router.#AUTH_SIGN(response, result); return response
AuthSignStage(r, M, H, A) ==
    LET entry == GetEntry(M, r.path, r.method)
    IN  IF Truthy(entry.sign) /\ Truthy(A.sign)
        THEN IF TypeOf(A.sign) = "function"
             THEN [r |-> [r EXCEPT !.pc = "auth_await_sign",
                                   !.calls = Append(@, Call("sign", A.sign.v,
                                                            "response", r.result))],
                   H |-> H]
             ELSE ErrorMapper(r, Error("AUTH_SIGN is not a function"), H)
        ELSE [r |-> [r EXCEPT !.pc = "returned"], H |-> H]

\* the switch over the kind of result, then the sign step
AuthEncodeStage(r, M, H, A) ==
    LET enc == Encode(r.result, r.responseHeaders, r.responseStatus)
        r2 == [r EXCEPT !.responseHeaders = enc.headers, !.response = enc.response,
                        !.encoded = IF enc.ok THEN "ok" ELSE "failed"]
    IN  IF enc.ok THEN AuthSignStage(r2, M, H, A) ELSE ErrorMapper(r2, enc.error, H)

\* result = await entry.handler(arg, user, req)
AuthCallHandler(r, M, H, A, arg) ==
    LET entry == GetEntry(M, r.path, r.method)
    IN  IF TypeOf(entry.handler) = "function"
        THEN [r |-> [r EXCEPT !.pc = "auth_await_handler",
                              !.calls = Append(@, Call("handler", entry.handler.v,
                                                       arg, r.payload))],
              H |-> H]
        ELSE ErrorMapper(r, Error("handler is not a function"), H)

\* the GET branch and the switch over the content-type header
AuthDecodeStage(r, M, H, A) ==
    IF r.method = "GET" THEN AuthCallHandler(r, M, H, A, "query")
    ELSE IF r.ctype \in {"application/json", "text/plain", "multipart/form-data"}
    THEN [r |-> [r EXCEPT !.pc = "auth_await_body",
                          !.calls = Append(@, Call("decode", r.ctype, "req", Undefined))],
          H |-> H]
    ELSE AuthCallHandler(r, M, H, A, "req")

\* if (entry.verify && Router.#AUTH_VERIFY) user = await Router.#AUTH_VERIFY(req)
AuthVerifyStage(r, M, H, A) ==
    LET entry == GetEntry(M, r.path, r.method)
    IN  IF Truthy(entry.verify) /\ Truthy(A.verify)
        THEN IF TypeOf(A.verify) = "function"
             THEN [r |-> [r EXCEPT !.pc = "auth_await_verify",
                                   !.calls = Append(@, Call("verify", A.verify.v,
                                                            "req", Undefined))],
                   H |-> H]
             ELSE ErrorMapper(r, Error("AUTH_VERIFY is not a function"), H)
        ELSE AuthDecodeStage(r, M, H, A)

\* the callback of mod.js from its first line to its first await or return
AuthStart(r0, M, H, A) ==
    LET path == RouteKey(r0.seg)
        r == [r0 EXCEPT !.path = path]
    IN  IF r.method = "OPTIONS"
        THEN [r |-> [r EXCEPT !.pc = "returned",
                              !.response = ResponseCtor("", TRUE, 200, H).response],
              H |-> H]
        ELSE IF ~HasPath(M, path)
        THEN [r |-> [r EXCEPT !.pc = "returned",
                              !.response = ResponseCtor("Request path " \o path \o " does not exist",
                                                        FALSE, 404, H).response],
              H |-> H]
        ELSE IF ~GetEntry(M, path, r.method).present
        THEN [r |-> [r EXCEPT !.pc = "returned",
                              !.response = ResponseCtor("Request method " \o r.method
                                                            \o " does not exist on path " \o path,
                                                        FALSE, 405, H).response],
              H |-> H]
        ELSE AuthVerifyStage([r EXCEPT !.responseHeaders = StructuredClone(H),
                                       !.responseStatus = DefaultStatus(r.method),
                                       !.matched = GetEntry(M, path, r.method)], M, H, A)

----------------------------------------------------------------------------
(* Inputs *)

Paths == {"/a"}
RouteMethods == {"GET", "POST", "PUT", "OPTIONS"}
\* (the options Route rejects are passed by the re-registration specification)
VerifyOptions == {Undefined, Fn("v1")}
SignOptions == {Undefined, Fn("s1")}
LoginOptions == {Undefined, Fn("l1")}

\* the function passed as handler by the n-th call of Route
HandlerOfCall(n) == Fn("h" \o ToString(n))

RequestMethods == {"GET", "POST", "PUT", "OPTIONS", "toString"}
Segments == {"a", "zz", "constructor"}
ContentTypes ==
    {"application/json", "text/plain", "multipart/form-data",
     "application/json; charset=utf-8"}

\* what a verify hook may return
Payloads == {Str("u1"), Str("u2")}

\* the handler results the dispatcher specification draws from
SomeResults == {Str("hi"), Undefined, [t |-> "number", v |-> "7"]}

----------------------------------------------------------------------------
(* Actions *)

Init ==
    /\ DEFAULT_HEADERS = InitialDefaultHeaders
    /\ ROUTER_MAP = EmptyObject
    /\ serving = FALSE
    /\ CONFIGURED = InitialDefaultHeaders
    /\ nRoutes = 0
    /\ registered = {}
    /\ inflight = EmptyBag
    /\ returned = <<>>
    /\ variant = "hooks"
    /\ AUTH_VERIFY = Undefined
    /\ AUTH_SIGN = Undefined
    /\ lastRoute = <<>>

\* one Router.Route call: its arguments and whether it threw
RouteCallRecord(path, method, handler, verify, sign, login, threw) ==
    [path |-> path, method |-> method, handler |-> handler, verify |-> verify,
     sign |-> sign, login |-> login, threw |-> threw]

\* Router.Route(path, method, handler, { verify, sign, login })
RouteCall(path, method, handler, verify, sign, login) ==
    /\ returned = <<>>
    /\ nRoutes' = nRoutes + 1
    /\ lastRoute' = <<RouteCallRecord(path, method, handler, verify, sign, login,
                                      RouteRejects(verify, sign, login))>>
    /\ ROUTER_MAP' =
          IF RouteRejects(verify, sign, login)
          THEN ROUTER_MAP
          ELSE RouteInsert(ROUTER_MAP, path, method,
                           MethodEntry(handler, verify, sign, login, Undefined))
    /\ registered' =
          IF RouteRejects(verify, sign, login)
          THEN registered
          ELSE registered \cup {<<path, method, handler.v>>}
    /\ UNCHANGED <<DEFAULT_HEADERS, serving, CONFIGURED, inflight, returned,
                   variant, AUTH_VERIFY, AUTH_SIGN>>

\* the Router.Route calls the configuration makes before and while serving
Route(path, method, handler, verify, sign, login) ==
    /\ nRoutes < MaxRoutes
    /\ RouteCall(path, method, handler, verify, sign, login)

\* Router.Run({ default_headers }): set the template (default_headers is TRUE
\* when the option is given) and start serving.  api_prefix is not given, so
\* Router.#API_PREFIX stays undefined and the callback parses req.url as it is.
Run(default_headers) ==
    /\ ~serving
    /\ serving' = TRUE
    /\ DEFAULT_HEADERS' = IF default_headers THEN CustomDefaultHeaders ELSE DEFAULT_HEADERS
    /\ CONFIGURED' = DEFAULT_HEADERS'
    /\ UNCHANGED <<ROUTER_MAP, nRoutes, registered, inflight, returned,
                   variant, AUTH_VERIFY, AUTH_SIGN, lastRoute>>

\* a run of the callback ends at an await (the request stays in flight) or
\* completes (the callback returns a response or throws)
Settle(others, out) ==
    /\ DEFAULT_HEADERS' = out.H
    /\ IF out.r.pc \in AwaitPcs
       THEN inflight' = others (+) SetToBag({out.r}) /\ returned' = <<>>
       ELSE inflight' = others /\ returned' = <<out.r>>
    /\ UNCHANGED <<ROUTER_MAP, serving, CONFIGURED, nRoutes, registered,
                   variant, AUTH_VERIFY, AUTH_SIGN, lastRoute>>

Suspended(r, pc) == returned = <<>> /\ BagIn(r, inflight) /\ r.pc = pc

Others(r) == inflight (-) SetToBag({r})

\* the listener invokes the callback with a new request
Receive(method, seg, ctype) ==
    /\ serving
    /\ returned = <<>>
    /\ Settle(inflight, Start(NewRequest(method, seg, ctype), ROUTER_MAP, DEFAULT_HEADERS))

\* await entry.verify(req) resolves
VerifyReturns(r, p) ==
    /\ Suspended(r, "await_verify")
    /\ Settle(Others(r), DecodeStage([r EXCEPT !.payload = p], ROUTER_MAP, DEFAULT_HEADERS))

\* await entry.verify(req) rejects
VerifyThrows(r, e) ==
    /\ Suspended(r, "await_verify")
    /\ Settle(Others(r), ErrorMapper(r, e, DEFAULT_HEADERS))

\* await req.json() / req.text() / req.formData() resolves
BodyDecoded(r) ==
    /\ Suspended(r, "await_body")
    /\ Settle(Others(r), CallHandler([r EXCEPT !.decoded = "ok"], ROUTER_MAP,
                                     DEFAULT_HEADERS, r.ctype))

\* the body reader rejects; the inner catch throws the CustomError of its branch
BodyFails(r) ==
    /\ Suspended(r, "await_body")
    /\ LET msg == CASE r.ctype = "application/json" -> "Request body is not a valid JSON"
                    [] r.ctype = "text/plain" -> "Request body is not a valid STRING"
                    [] OTHER -> "Request body is not a valid FORMDATA"
       IN  Settle(Others(r), ErrorMapper([r EXCEPT !.decoded = "failed"],
                                         CustomError(msg, 400), DEFAULT_HEADERS))

\* await entry.handler(...) resolves
HandlerReturns(r, v) ==
    /\ Suspended(r, "await_handler")
    /\ Settle(Others(r), EncodeStage([r EXCEPT !.result = v], ROUTER_MAP, DEFAULT_HEADERS))

\* await entry.handler(...) rejects
HandlerThrows(r, e) ==
    /\ Suspended(r, "await_handler")
    /\ Settle(Others(r), ErrorMapper(r, e, DEFAULT_HEADERS))

\* await entry.sign(response, payload) resolves; the hook may have set a header
\* on the response it was given
SignReturns(r, sets) ==
    /\ Suspended(r, "await_sign")
    /\ LET r2 == IF sets
                 THEN [r EXCEPT !.response.headers = SetProp(@, "authorization", "token")]
                 ELSE r
       IN  Settle(Others(r), LoginStage(r2, ROUTER_MAP, DEFAULT_HEADERS))

\* await entry.sign(response, payload) rejects
SignThrows(r, e) ==
    /\ Suspended(r, "await_sign")
    /\ Settle(Others(r), ErrorMapper(r, e, DEFAULT_HEADERS))

\* await entry.login(response, result) resolves
LoginReturns(r) ==
    /\ Suspended(r, "await_login")
    /\ Settle(Others(r), [r |-> [r EXCEPT !.pc = "returned"], H |-> DEFAULT_HEADERS])

\* await entry.login(response, result) rejects
LoginThrows(r, e) ==
    /\ Suspended(r, "await_login")
    /\ Settle(Others(r), ErrorMapper(r, e, DEFAULT_HEADERS))

\* the listener takes what the callback produced; the request's locals are discarded
Deliver ==
    /\ returned # <<>>
    /\ returned' = <<>>
    /\ UNCHANGED <<DEFAULT_HEADERS, ROUTER_MAP, serving, CONFIGURED, nRoutes, registered, inflight,
                   variant, AUTH_VERIFY, AUTH_SIGN, lastRoute>>

\* the listener hands over a request while no other request is in flight
ReceiveAlone(method, seg, ctype) ==
    /\ inflight = EmptyBag
    /\ Receive(method, seg, ctype)

----------------------------------------------------------------------------
(* Actions of mod.js *)

InitAuth ==
    /\ DEFAULT_HEADERS = AuthInitialDefaultHeaders
    /\ ROUTER_MAP = EmptyObject
    /\ serving = FALSE
    /\ CONFIGURED = AuthInitialDefaultHeaders
    /\ nRoutes = 0
    /\ registered = {}
    /\ inflight = EmptyBag
    /\ returned = <<>>
    /\ variant = "auth"
    /\ AUTH_VERIFY = Undefined
    /\ AUTH_SIGN = Undefined
    /\ lastRoute = <<>>

\* Router.Route(path, method, handler, { verify, sign }) of mod.js: no check
AuthRoute(path, method, handler, verify, sign) ==
    /\ returned = <<>>
    /\ nRoutes < MaxRoutes
    /\ nRoutes' = nRoutes + 1
    /\ lastRoute' = <<RouteCallRecord(path, method, handler, verify, sign, Undefined, FALSE)>>
    /\ ROUTER_MAP' = RouteInsert(ROUTER_MAP, path, method,
                                 MethodEntry(handler, verify, sign, Undefined, Undefined))
    /\ registered' = registered \cup {<<path, method, handler.v>>}
    /\ UNCHANGED <<DEFAULT_HEADERS, serving, CONFIGURED, inflight, returned,
                   variant, AUTH_VERIFY, AUTH_SIGN>>

\* Router.Run({ auth_verify, auth_sign, default_headers }) of mod.js
AuthRun(auth_verify, auth_sign, default_headers) ==
    /\ ~serving
    /\ serving' = TRUE
    /\ DEFAULT_HEADERS' = IF default_headers THEN CustomDefaultHeaders ELSE DEFAULT_HEADERS
    /\ CONFIGURED' = DEFAULT_HEADERS'
    /\ AUTH_VERIFY' = IF auth_verify \in {Undefined, Null} THEN AUTH_VERIFY ELSE auth_verify
    /\ AUTH_SIGN' = IF auth_sign \in {Undefined, Null} THEN AUTH_SIGN ELSE auth_sign
    /\ UNCHANGED <<ROUTER_MAP, nRoutes, registered, inflight, returned, variant, lastRoute>>

\* Router.#AUTH_VERIFY and Router.#AUTH_SIGN as the callback reads them
Auth == [verify |-> AUTH_VERIFY, sign |-> AUTH_SIGN]

\* the listener invokes the callback of mod.js with a new request
AuthReceive(method, seg, ctype) ==
    /\ serving
    /\ returned = <<>>
    /\ Settle(inflight, AuthStart(NewRequest(method, seg, ctype), ROUTER_MAP,
                                  DEFAULT_HEADERS, Auth))

\* await Router.#AUTH_VERIFY(req) resolves
AuthVerifyReturns(r, u) ==
    /\ Suspended(r, "auth_await_verify")
    /\ Settle(Others(r), AuthDecodeStage([r EXCEPT !.payload = u], ROUTER_MAP,
                                         DEFAULT_HEADERS, Auth))

\* await Router.#AUTH_VERIFY(req) rejects
AuthVerifyThrows(r, e) ==
    /\ Suspended(r, "auth_await_verify")
    /\ Settle(Others(r), ErrorMapper(r, e, DEFAULT_HEADERS))

\* await req.json() / req.text() / req.formData() resolves
AuthBodyDecoded(r) ==
    /\ Suspended(r, "auth_await_body")
    /\ Settle(Others(r), AuthCallHandler([r EXCEPT !.decoded = "ok"], ROUTER_MAP,
                                         DEFAULT_HEADERS, Auth, r.ctype))

\* the body reader rejects; the inner catch throws the CustomError of its branch
AuthBodyFails(r) ==
    /\ Suspended(r, "auth_await_body")
    /\ LET msg == CASE r.ctype = "application/json" -> "Request body is not a valid JSON"
                    [] r.ctype = "text/plain" -> "Request body is not a valid STRING"
                    [] OTHER -> "Request body is not a valid FORMDATA"
       IN  Settle(Others(r), ErrorMapper([r EXCEPT !.decoded = "failed"],
                                         CustomError(msg, 400), DEFAULT_HEADERS))

\* await entry.handler(...) resolves
AuthHandlerReturns(r, v) ==
    /\ Suspended(r, "auth_await_handler")
    /\ Settle(Others(r), AuthEncodeStage([r EXCEPT !.result = v], ROUTER_MAP,
                                         DEFAULT_HEADERS, Auth))

\* await entry.handler(...) rejects
AuthHandlerThrows(r, e) ==
    /\ Suspended(r, "auth_await_handler")
    /\ Settle(Others(r), ErrorMapper(r, e, DEFAULT_HEADERS))

\* await Router.#AUTH_SIGN(response, result) resolves; the hook may have set a
\* header on the response it was given
AuthSignReturns(r, sets) ==
    /\ Suspended(r, "auth_await_sign")
    /\ LET r2 == IF sets
                 THEN [r EXCEPT !.response.headers = SetProp(@, "authorization", "token")]
                 ELSE r
       IN  Settle(Others(r), [r |-> [r2 EXCEPT !.pc = "returned"], H |-> DEFAULT_HEADERS])

\* await Router.#AUTH_SIGN(response, result) rejects
AuthSignThrows(r, e) ==
    /\ Suspended(r, "auth_await_sign")
    /\ Settle(Others(r), ErrorMapper(r, e, DEFAULT_HEADERS))

----------------------------------------------------------------------------
(* Specifications *)

\* Requests served one at a time, over every method, path, content type and
\* failure.  A request's locals are its own; what requests share is the
\* template and the registry, and both change here between the steps of a
\* request and from one request to the next.
Next ==
    \/ \E path \in Paths, method \in RouteMethods,
          verify \in VerifyOptions, sign \in SignOptions, login \in LoginOptions :
          Route(path, method, HandlerOfCall(nRoutes + 1), verify, sign, login)
    \/ \E default_headers \in BOOLEAN : Run(default_headers)
    \/ \E method \in RequestMethods, seg \in Segments, ctype \in ContentTypes :
          ReceiveAlone(method, seg, ctype)
    \/ \E r \in BagToSet(inflight) : VerifyReturns(r, Str("u1"))
    \/ \E r \in BagToSet(inflight), e \in Throwables : VerifyThrows(r, e)
    \/ \E r \in BagToSet(inflight) : BodyDecoded(r)
    \/ \E r \in BagToSet(inflight) : BodyFails(r)
    \/ \E r \in BagToSet(inflight), v \in SomeResults : HandlerReturns(r, v)
    \/ \E r \in BagToSet(inflight), e \in Throwables : HandlerThrows(r, e)
    \/ \E r \in BagToSet(inflight), sets \in BOOLEAN : SignReturns(r, sets)
    \/ \E r \in BagToSet(inflight), e \in Throwables : SignThrows(r, e)
    \/ \E r \in BagToSet(inflight) : LoginReturns(r)
    \/ \E r \in BagToSet(inflight), e \in Throwables : LoginThrows(r, e)
    \/ Deliver

Spec == Init /\ [][Next]_vars

\* requests served one at a time: every kind of handler result
NextEncode ==
    \/ \E path \in Paths, method \in RouteMethods,
          verify \in VerifyOptions, sign \in SignOptions, login \in LoginOptions :
          Route(path, method, HandlerOfCall(nRoutes + 1), verify, sign, login)
    \/ \E default_headers \in BOOLEAN : Run(default_headers)
    \/ \E method \in {"GET", "POST", "PUT", "OPTIONS"} :
          ReceiveAlone(method, "a", "application/json; charset=utf-8")
    \/ \E r \in BagToSet(inflight) : VerifyReturns(r, Str("u1"))
    \/ \E r \in BagToSet(inflight) : VerifyThrows(r, Error("boom"))
    \/ \E r \in BagToSet(inflight), v \in ResultValues : HandlerReturns(r, v)
    \/ \E r \in BagToSet(inflight) : HandlerThrows(r, Error("boom"))
    \/ \E r \in BagToSet(inflight), sets \in BOOLEAN : SignReturns(r, sets)
    \/ \E r \in BagToSet(inflight) : SignThrows(r, Error("boom"))
    \/ \E r \in BagToSet(inflight) : LoginReturns(r)
    \/ \E r \in BagToSet(inflight) : LoginThrows(r, Error("boom"))
    \/ Deliver

SpecEncode == Init /\ [][NextEncode]_vars

\* the paths, methods and options the re-registration specification passes to Route
RoutePaths == {"/a", "/a/b"}
ReRouteMethods == {"GET", "POST"}
False == [t |-> "boolean", v |-> "false"]

\* the functions passed as hooks by the n-th call of Route
VerifyOfCall(n) == Fn("v" \o ToString(n))
SignOfCall(n) == Fn("s" \o ToString(n))
LoginOfCall(n) == Fn("l" \o ToString(n))

\* the { verify, sign, login } options the n-th call of Route may pass
HookOptionsOfCall(n) ==
    {<<Undefined, Undefined, Undefined>>,
     <<VerifyOfCall(n), Undefined, Undefined>>,
     <<Undefined, SignOfCall(n), LoginOfCall(n)>>,
     <<VerifyOfCall(n), SignOfCall(n), LoginOfCall(n)>>,
     <<Str("yes"), Undefined, Undefined>>,
     <<False, Undefined, Undefined>>}

\* Route called again and again, before serving, between requests and while a
\* request is suspended at an await; requests served one at a time
NextRoutes ==
    \/ \E path \in RoutePaths, method \in ReRouteMethods,
          options \in HookOptionsOfCall(nRoutes + 1) :
          /\ nRoutes < MaxReRoutes
          /\ RouteCall(path, method, HandlerOfCall(nRoutes + 1),
                       options[1], options[2], options[3])
    \/ Run(FALSE)
    \/ \E method \in ReRouteMethods :
          ReceiveAlone(method, "a", "application/json; charset=utf-8")
    \/ \E r \in BagToSet(inflight) : VerifyReturns(r, Str("u1"))
    \/ \E r \in BagToSet(inflight) : VerifyThrows(r, Error("boom"))
    \/ \E r \in BagToSet(inflight) : HandlerReturns(r, Str("hi"))
    \/ \E r \in BagToSet(inflight) : HandlerThrows(r, Error("boom"))
    \/ \E r \in BagToSet(inflight) : SignReturns(r, FALSE)
    \/ \E r \in BagToSet(inflight) : SignThrows(r, Error("boom"))
    \/ \E r \in BagToSet(inflight) : LoginReturns(r)
    \/ \E r \in BagToSet(inflight) : LoginThrows(r, Error("boom"))
    \/ Deliver

SpecRoutes == Init /\ [][NextRoutes]_vars

True == [t |-> "boolean", v |-> "true"]

\* what the handlers of the concurrent specification return
TwoResults == {Str("hi"), [t |-> "object", v |-> "record"]}

\* either source, with up to MaxInFlight GET requests suspended at once and
\* their continuations interleaved in every order
NextBoth ==
    \/ \E verify \in {Undefined, VerifyOfCall(1)}, sign \in {Undefined, SignOfCall(1)},
          login \in {Undefined, LoginOfCall(1)} :
          /\ variant = "hooks"
          /\ Route("/a", "GET", HandlerOfCall(1), verify, sign, login)
    \/ variant = "hooks" /\ Run(FALSE)
    \/ /\ variant = "hooks"
       /\ BagCardinality(inflight) < MaxInFlight
       /\ Receive("GET", "a", "application/json")
    \/ \E r \in BagToSet(inflight), p \in Payloads : VerifyReturns(r, p)
    \/ \E r \in BagToSet(inflight) : VerifyThrows(r, Error("boom"))
    \/ \E r \in BagToSet(inflight), v \in TwoResults : HandlerReturns(r, v)
    \/ \E r \in BagToSet(inflight) : HandlerThrows(r, Error("boom"))
    \/ \E r \in BagToSet(inflight) : SignReturns(r, FALSE)
    \/ \E r \in BagToSet(inflight) : SignThrows(r, Error("boom"))
    \/ \E r \in BagToSet(inflight) : LoginReturns(r)
    \/ \E r \in BagToSet(inflight) : LoginThrows(r, Error("boom"))
    \/ \E verify \in {Undefined, True}, sign \in {Undefined, True} :
          /\ variant = "auth"
          /\ AuthRoute("/a", "GET", HandlerOfCall(1), verify, sign)
    \/ \E auth_verify \in {Undefined, Fn("auth_verify")},
          auth_sign \in {Undefined, Fn("auth_sign")} :
          /\ variant = "auth"
          /\ AuthRun(auth_verify, auth_sign, FALSE)
    \/ /\ variant = "auth"
       /\ BagCardinality(inflight) < MaxInFlight
       /\ AuthReceive("GET", "a", "application/json")
    \/ \E r \in BagToSet(inflight), u \in Payloads : AuthVerifyReturns(r, u)
    \/ \E r \in BagToSet(inflight) : AuthVerifyThrows(r, Error("boom"))
    \/ \E r \in BagToSet(inflight), v \in TwoResults : AuthHandlerReturns(r, v)
    \/ \E r \in BagToSet(inflight) : AuthHandlerThrows(r, Error("boom"))
    \/ \E r \in BagToSet(inflight) : AuthSignReturns(r, FALSE)
    \/ \E r \in BagToSet(inflight) : AuthSignThrows(r, Error("boom"))
    \/ Deliver

SpecBoth == (Init \/ InitAuth) /\ [][NextBoth]_vars

----------------------------------------------------------------------------
(* What the claims are stated over *)

\* the request whose callback has just completed, if any
Completed == {returned[i] : i \in 1..Len(returned)}

\* every request the state holds
Live == BagToSet(inflight) \cup Completed

\* the entry for the request's path and method is an own property of the registry
OwnEntry(r) == r.path \in DOMAIN ROUTER_MAP /\ r.method \in DOMAIN ROUTER_MAP[r.path]

NumCalls(r, fn) == Cardinality(CallsOf(r, fn))

\* the request failed, and the last thing it had invoked was fn
FailedIn(r, fn) == r.error # NoError /\ r.calls # <<>> /\ r.calls[Len(r.calls)].fn = fn

----------------------------------------------------------------------------
(* C1 *)

\* C1 as stated: every completed request to a registered (path, method) pair
\* has invoked the pair's handler exactly once.
C1_Original ==
    \A r \in Completed :
        OwnEntry(r) =>
            /\ NumCalls(r, "handler") = 1
            /\ \A i \in CallsOf(r, "handler") :
                  <<r.path, r.method, r.calls[i].id>> \in registered

\* C1, amended: a completed request to a registered (path, method) pair has
\* invoked a handler registered for the pair exactly once, unless its method is
\* OPTIONS, its verify hook failed or its body failed to decode; in those three
\* cases the handler was not invoked at all.
C1_HandlerOnce ==
    \A r \in Completed :
        OwnEntry(r) =>
            IF r.method = "OPTIONS" \/ FailedIn(r, "verify") \/ r.decoded = "failed"
            THEN NumCalls(r, "handler") = 0
            ELSE /\ NumCalls(r, "handler") = 1
                 /\ \A i \in CallsOf(r, "handler") :
                       <<r.path, r.method, r.calls[i].id>> \in registered

\* a request that went through verify, decoding, the handler, sign and login
C1_Witness ==
    \E r \in Completed :
        /\ OwnEntry(r) /\ r.pc = "returned" /\ r.error = NoError
        /\ NumCalls(r, "handler") = 1
        /\ \A fn \in {"verify", "decode", "sign", "login"} : NumCalls(r, fn) = 1

----------------------------------------------------------------------------
(* C2 *)

\* C2: when the verify hook fails with a CustomError, the request ends with a
\* response carrying the error's status and message, and nothing but verify
\* was invoked (no body decoding, no handler, no sign, no login).
C2_VerifyFailure ==
    \A r \in Completed :
        (FailedIn(r, "verify") /\ r.error.t = "CustomError") =>
            /\ r.pc = "returned"
            /\ r.response.status = r.error.status
            /\ r.response.body = r.error.message
            /\ \A i \in 1..Len(r.calls) : r.calls[i].fn = "verify"

----------------------------------------------------------------------------
(* C3 *)

\* C3: serving never changes the DefaultHeaders template: it always equals the
\* value configured at startup.
C3_TemplateUnchanged == DEFAULT_HEADERS = CONFIGURED

----------------------------------------------------------------------------
(* C4 *)

\* C4: the request callback always completes by returning a response, never
\* by throwing.
C4_NeverThrows == \A r \in Completed : r.pc = "returned"

----------------------------------------------------------------------------
(* C5 *)

\* C5: a request that is not OPTIONS and whose first path segment was never
\* registered is answered 404, and no hook or handler is invoked.
C5_UnknownPath ==
    \A r \in Completed :
        (r.method # "OPTIONS" /\ r.path \notin DOMAIN ROUTER_MAP) =>
            /\ r.pc = "returned"
            /\ r.response.status = 404
            /\ r.response.body = "Request path " \o r.path \o " does not exist"
            /\ r.calls = <<>>

\* a 404 for a segment that names a member of Object.prototype, while the
\* registry holds a route
C5_Witness ==
    \E r \in Completed :
        /\ r.seg \in ObjectPrototypeKeys /\ r.method = "toString"
        /\ ROUTER_MAP # EmptyObject
        /\ r.response.status = 404

----------------------------------------------------------------------------
(* C6 *)

\* C6: a request (other than the OPTIONS preflight) to a registered path with
\* a method that was not registered for it is answered 405, and no hook or
\* handler is invoked.
C6_MethodNotAllowed ==
    \A r \in Completed :
        (/\ r.method # "OPTIONS"
         /\ r.path \in DOMAIN ROUTER_MAP
         /\ r.method \notin DOMAIN ROUTER_MAP[r.path]) =>
            /\ r.pc = "returned"
            /\ r.response.status = 405
            /\ r.calls = <<>>

----------------------------------------------------------------------------
(* C7 *)

\* C7: an OPTIONS request is answered 200 with an empty body and exactly the
\* default headers configured at startup, and invokes nothing.
C7_Options ==
    \A r \in Completed :
        r.method = "OPTIONS" =>
            /\ r.pc = "returned"
            /\ r.response.status = 200
            /\ r.response.body = ""
            /\ r.response.headers = HeadersOf(CONFIGURED)
            /\ r.calls = <<>>

----------------------------------------------------------------------------
(* C8 *)

\* C8 as stated: an encoded response that the handler did not build itself
\* has status 200 for GET and 201 for every other method.
C8_Original ==
    \A r \in Live :
        (r.encoded = "ok" /\ r.error = NoError /\ r.result.t # "Response") =>
            r.response.status = IF r.method = "GET" THEN 200 ELSE 201

\* C8, amended: an encoded response that the handler did not build itself has
\* status 201 for POST and 200 for every other method; a handler returning
\* nothing yields an empty body and content-type text/plain with that status;
\* a response object the handler returns keeps its own status.
C8_DefaultStatus ==
    \A r \in Live :
        (r.encoded = "ok" /\ r.error = NoError) =>
            /\ r.result.t # "Response" =>
                  r.response.status = IF r.method = "POST" THEN 201 ELSE 200
            /\ r.result.t \in {"null", "undefined"} =>
                  /\ r.response.body = ""
                  /\ "content-type" \in DOMAIN r.response.headers
                  /\ r.response.headers["content-type"] = "text/plain"
            /\ r.result.t = "Response" =>
                  r.response.status = HandlerMadeResponse.status

\* a PUT whose handler returned nothing, answered 200
C8_Witness ==
    \E r \in Completed :
        /\ r.method = "PUT" /\ r.pc = "returned" /\ r.error = NoError
        /\ NumCalls(r, "handler") = 1 /\ r.result = Undefined
        /\ r.response.status = 200

----------------------------------------------------------------------------
(* C9 *)

\* the message of the content type's decode failure
DecodeFailureMessage(ctype) ==
    CASE ctype = "application/json" -> "Request body is not a valid JSON"
      [] ctype = "text/plain" -> "Request body is not a valid STRING"
      [] ctype = "multipart/form-data" -> "Request body is not a valid FORMDATA"
      [] OTHER -> "none"

DecodedTypes == {"application/json", "text/plain", "multipart/form-data"}

\* C9: a body that fails to decode belongs to a non-GET request of one of the
\* three decoded content types and is answered 400 with that type's message,
\* without handler, sign or login; a non-GET request of any other content type
\* is never decoded and its handler gets the raw request; a GET request is
\* never decoded and its handler gets the query mapping; a handler of a decoded
\* content type gets the decoded body.
C9_Decoding ==
    \A r \in Live :
        /\ r.decoded = "failed" =>
              /\ r.method # "GET" /\ r.ctype \in DecodedTypes
              /\ r.pc = "returned"
              /\ r.response.status = 400
              /\ r.response.body = DecodeFailureMessage(r.ctype)
              /\ \A fn \in {"handler", "sign", "login"} : NumCalls(r, fn) = 0
        /\ (r.method # "GET" /\ r.ctype \notin DecodedTypes) =>
              /\ r.decoded = "no" /\ NumCalls(r, "decode") = 0
              /\ \A i \in CallsOf(r, "handler") : r.calls[i].arg = "req"
        /\ r.method = "GET" =>
              /\ r.decoded = "no" /\ NumCalls(r, "decode") = 0
              /\ \A i \in CallsOf(r, "handler") : r.calls[i].arg = "query"
        /\ (r.method # "GET" /\ r.ctype \in DecodedTypes) =>
              \A i \in CallsOf(r, "handler") :
                  r.decoded = "ok" /\ r.calls[i].arg = r.ctype

\* a form-data body that failed to decode, answered 400, after verify had run
C9_Witness ==
    \E r \in Completed :
        /\ r.decoded = "failed" /\ r.ctype = "multipart/form-data"
        /\ NumCalls(r, "verify") = 1
        /\ r.response.status = 400
        /\ r.response.body = "Request body is not a valid FORMDATA"

----------------------------------------------------------------------------
(* C10 *)

\* the outcome C10 names for a handler result
ClaimedOutcome(v) ==
    CASE v.t = "bigint" -> [kind |-> "body", body |-> "10", ctype |-> "text/plain"]
      [] v.t \in {"string", "String"} -> [kind |-> "body", body |-> v.v, ctype |-> "text/plain"]
      [] v.t \in {"null", "undefined"} -> [kind |-> "body", body |-> "", ctype |-> "text/plain"]
      [] v.t = "Response" -> [kind |-> "verbatim", body |-> "made", ctype |-> ""]
      [] v.t = "object" ->
            [kind |-> "body", body |-> "{\"a\":1}", ctype |-> "application/json"]
      [] v.t = "boolean" -> [kind |-> "body", body |-> v.v, ctype |-> "text/plain"]
      [] OTHER ->
            [kind |-> "failure", ctype |-> "",
             body |-> "Return type of controller has no defined processor"]

\* the same, with the structured object that has no JSON serialization
AmendedOutcome(v) ==
    IF v.t = "object" /\ v.v = "cyclic"
    THEN [kind |-> "failure", ctype |-> "", body |-> "Converting circular structure to JSON"]
    ELSE ClaimedOutcome(v)

\* request r, whose handler returned, shows outcome o
ShowsOutcome(r, o) ==
    CASE o.kind = "body" ->
            /\ r.encoded = "ok"
            /\ r.error = NoError =>
                  /\ r.response.body = o.body
                  /\ "content-type" \in DOMAIN r.response.headers
                  /\ r.response.headers["content-type"] = o.ctype
      [] o.kind = "verbatim" ->
            /\ r.encoded = "ok"
            /\ r.error = NoError =>
                  /\ r.response.status = HandlerMadeResponse.status
                  /\ r.response.body = o.body
                  /\ DOMAIN r.response.headers \subseteq {"authorization"}
      [] OTHER ->
            /\ r.encoded = "failed"
            /\ r.pc = "returned"
            /\ r.response.status = 500
            /\ r.response.body = o.body
            /\ \A fn \in {"sign", "login"} : NumCalls(r, fn) = 0

\* C10 as stated: every handler result is encoded as the claim's table says.
C10_Original ==
    \A r \in Live : r.encoded # "no" => ShowsOutcome(r, ClaimedOutcome(r.result))

\* C10, amended: every handler result is encoded as the claim's table says,
\* except that a structured object without a JSON serialization is answered
\* with status 500 and the serializer's message.
C10_Encoder ==
    \A r \in Live : r.encoded # "no" => ShowsOutcome(r, AmendedOutcome(r.result))

\* a structured object answered with its JSON text, and null answered with an
\* empty text/plain body, are both possible
C10_Witness ==
    \E r \in Completed :
        /\ r.pc = "returned" /\ r.error = NoError
        /\ r.result = [t |-> "object", v |-> "record"]
        /\ r.response.body = "{\"a\":1}"
        /\ r.response.headers["content-type"] = "application/json"

----------------------------------------------------------------------------
(* C11 *)

\* the hooks and the handler the request has invoked are those of entry, and a
\* hook entry does not name was not invoked
InvokesOnly(r, entry) ==
    \A i \in 1..Len(r.calls) :
        LET c == r.calls[i]
        IN  c.fn \in {"verify", "handler", "sign", "login"} =>
                /\ Truthy(entry[c.fn])
                /\ c.id = entry[c.fn].v

\* the pair has been registered more than once
RegisteredTwice(path, method) ==
    \E t1, t2 \in registered :
        /\ t1 # t2
        /\ t1[1] = path /\ t1[2] = method
        /\ t2[1] = path /\ t2[2] = method

\* the registry holds, for the pair of the latest accepted Route call, exactly
\* the entry that call passed
LatestStored ==
    \A i \in 1..Len(lastRoute) :
        LET c == lastRoute[i]
        IN  ~c.threw =>
                /\ c.path \in DOMAIN ROUTER_MAP
                /\ c.method \in DOMAIN ROUTER_MAP[c.path]
                /\ ROUTER_MAP[c.path][c.method] =
                      MethodEntry(c.handler, c.verify, c.sign, c.login, Undefined)

\* a Route call leaves every entry of another path or another method as it was
RouteFrame ==
    nRoutes' # nRoutes =>
        \A p \in DOMAIN ROUTER_MAP :
            /\ p \in DOMAIN ROUTER_MAP'
            /\ \A m \in DOMAIN ROUTER_MAP[p] :
                  /\ m \in DOMAIN ROUTER_MAP'[p]
                  /\ <<p, m>> # <<lastRoute'[1].path, lastRoute'[1].method>>
                        => ROUTER_MAP'[p][m] = ROUTER_MAP[p][m]

\* C11: the registry holds for a (path, method) pair the entry of the latest
\* Route call for it, and a request matched after that call invokes only that
\* registration's handler and hooks (a hook the
\* registration omits is not run), whatever was registered for the pair before;
\* and a Route call leaves the entries of every other method and path unchanged.
C11_Overwrite ==
    /\ []LatestStored
    /\ [](\A r \in Live :
             (OwnEntry(r) /\ r.matched = ROUTER_MAP[r.path][r.method])
                 => InvokesOnly(r, ROUTER_MAP[r.path][r.method]))
    /\ [][RouteFrame]_vars

\* a request served to its end by the second registration of its pair
C11_Witness ==
    \E r \in Completed :
        /\ OwnEntry(r) /\ r.matched = ROUTER_MAP[r.path][r.method]
        /\ RegisteredTwice(r.path, r.method)
        /\ r.pc = "returned" /\ r.error = NoError
        /\ NumCalls(r, "handler") = 1
        /\ <<r.path, r.method, "h1">> \in registered
        /\ r.matched.handler = HandlerOfCall(2)

----------------------------------------------------------------------------
(* C12 *)

\* the response has every header of the configured default set, with its value
CarriesDefaults(response) ==
    \A n \in DOMAIN HeadersOf(CONFIGURED) :
        /\ n \in DOMAIN response.headers
        /\ response.headers[n] = HeadersOf(CONFIGURED)[n]

\* the callback returned the response object its handler had built
ReturnedHandlerResponse(r) ==
    r.pc = "returned" /\ r.error = NoError /\ r.encoded = "ok" /\ r.result.t = "Response"

\* C12 as stated: every response the callback returns carries the full default
\* header set, also when the handler returned a response object of its own.
C12_Original ==
    \A r \in Completed : r.pc = "returned" => CarriesDefaults(r.response)

\* C12, amended: every response the callback returns carries the full default
\* header set (OPTIONS, 404, 405, error-mapped and encoded responses), except
\* when the handler returned a response object of its own: that object is
\* returned with the headers the handler and the sign hook gave it and none of
\* the defaults.
C12_DefaultsCarried ==
    \A r \in Completed :
        r.pc = "returned" =>
            IF ReturnedHandlerResponse(r)
            THEN DOMAIN r.response.headers \subseteq
                     DOMAIN HandlerMadeResponse.headers \cup {"authorization"}
            ELSE CarriesDefaults(r.response)

\* a handler-built response returned without the defaults, after a sign hook ran
C12_Witness ==
    \E r \in Completed :
        /\ ReturnedHandlerResponse(r)
        /\ NumCalls(r, "sign") = 1
        /\ ~CarriesDefaults(r.response)

\* the other kinds of response, each carrying the defaults
C12_WitnessKinds ==
    \E r \in Completed :
        /\ r.pc = "returned" /\ CarriesDefaults(r.response)
        /\ r.response.status \in {404, 405, 500} \/ r.method = "OPTIONS" \/ r.encoded = "ok"

----------------------------------------------------------------------------
(* C13 *)

\* the hook options of a Route call
HookOptions(c) == {c.verify, c.sign, c.login}

\* a Route call that threw left the registry as it was
RejectedUnchanged ==
    (nRoutes' # nRoutes /\ lastRoute'[1].threw) => ROUTER_MAP' = ROUTER_MAP

\* C13 as stated: a Route call with a hook option that is provided and not
\* callable fails and leaves the registry as it was; a Route call whose hook
\* options are all callable or absent does not fail and stores its entry.
C13_Original ==
    /\ [](\A i \in 1..Len(lastRoute) :
             lastRoute[i].threw <=>
                 \E x \in HookOptions(lastRoute[i]) :
                     x # Undefined /\ TypeOf(x) # "function")
    /\ []LatestStored
    /\ [][RejectedUnchanged]_vars

\* C13, amended: a Route call fails exactly when one of its hook options is
\* truthy and not callable, and then leaves the registry as it was; every other
\* Route call stores its entry with the options as passed, so an option that is
\* falsy and not callable (false, 0, '', null) is accepted like an absent one.
C13_RouteChecks ==
    /\ [](\A i \in 1..Len(lastRoute) :
             lastRoute[i].threw <=>
                 \E x \in HookOptions(lastRoute[i]) :
                     Truthy(x) /\ TypeOf(x) # "function")
    /\ [](\A i \in 1..Len(lastRoute) :
             ~lastRoute[i].threw =>
                 ROUTER_MAP[lastRoute[i].path][lastRoute[i].method].verify
                     = lastRoute[i].verify)
    /\ [][RejectedUnchanged]_vars

\* a Route call rejected for its option, made when the registry held an entry
C13_Witness ==
    /\ lastRoute # <<>>
    /\ lastRoute[1].threw
    /\ lastRoute[1].verify = Str("yes")
    /\ ROUTER_MAP # EmptyObject

\* a Route call accepted with verify: false
C13_WitnessFalsy ==
    /\ lastRoute # <<>>
    /\ ~lastRoute[1].threw
    /\ lastRoute[1].verify = False

----------------------------------------------------------------------------
(* C14 *)

\* the place of a stage in the order verify, decode, handler, (encode,) sign, login
StageRank(fn) ==
    CASE fn = "verify" -> 1
      [] fn = "decode" -> 2
      [] fn = "handler" -> 3
      [] fn = "sign" -> 5
      [] OTHER -> 6

\* the stages a request has run, in the order it ran them: strictly ascending,
\* the encoder after the handler and before sign and login, and nothing after
\* the stage that failed
StagesInOrder(r) ==
    /\ \A i, j \in 1..Len(r.calls) :
          i < j => StageRank(r.calls[i].fn) < StageRank(r.calls[j].fn)
    /\ r.encoded # "no" => NumCalls(r, "handler") = 1
    /\ (NumCalls(r, "sign") + NumCalls(r, "login") > 0) => r.encoded = "ok"
    /\ r.decoded = "failed" => r.calls[Len(r.calls)].fn = "decode"
    /\ r.encoded = "failed" => r.calls[Len(r.calls)].fn = "handler"
    /\ r.error # NoError => r.pc \in {"returned", "threw"}

\* the response the error mapping builds for the failure of the request
AnsweredByErrorMapping(r) ==
    /\ r.pc = "returned"
    /\ r.response.body = r.error.message
    /\ r.response.status = IF r.error.t = "CustomError" THEN r.error.status ELSE 500

\* the stages of every request run in order, and a failure ends them
C14_StagesInOrder == \A r \in Live : StagesInOrder(r)

\* C14: the stages of a request run strictly in the order verify, body decode,
\* handler, encode, sign, login; a failure in a stage prevents every later
\* stage, and the failed request is answered by the error mapping and not by
\* the encoded response.
C14_Stages ==
    \A r \in Live :
        /\ StagesInOrder(r)
        /\ r.error # NoError => AnsweredByErrorMapping(r)

----------------------------------------------------------------------------
(* C15 *)

\* the default header set as Router.Run configured it, as response headers
ConfiguredHeaders == HeadersOf(CONFIGURED)

\* the response the claim gives a failure that is not a CustomError
PlainFailureResponse(r) ==
    /\ r.pc = "returned"
    /\ r.response.status = 500
    /\ r.response.body = r.error.message
    /\ r.response.headers = ConfiguredHeaders

\* C15: a failure that is a CustomError yields a response with the error's
\* status (400 when none was given), its message as body and the default
\* headers with a text content type; any other failure yields status 500, the
\* failure's message and exactly the default header set configured at startup,
\* whatever requests were served before.
C15_ErrorMapping ==
    \A r \in Completed :
        r.error # NoError =>
            IF r.error.t = "CustomError"
            THEN /\ r.pc = "returned"
                 /\ r.response.status = r.error.status
                 /\ r.response.body = r.error.message
                 /\ r.response.headers = HeadersOf(SetProp(CONFIGURED, "Content-Type", "text/plain"))
            ELSE PlainFailureResponse(r)

\* the part of C15 about failures that are Error objects, whose mapping returns
C15_PlainFailures ==
    \A r \in Completed : r.error.t = "Error" => PlainFailureResponse(r)

----------------------------------------------------------------------------
(* C16 *)

\* the request's verify result: what its verify hook returned, null when the
\* hook did not run or has not returned
VerifyResultIsOwn(r) ==
    (NumCalls(r, "verify") = 0 \/ r.pc \in {"await_verify", "auth_await_verify"})
        => r.payload = Null

\* every call of kind fn the request made was handed value
Handed(r, fn, value) == \A i \in CallsOf(r, fn) : r.calls[i].ctx = value

\* C16 as stated: a request's handler and its sign hook are handed that
\* request's own verify result (null when no verify ran), and its login hook
\* is handed that request's handler result, whatever other requests are in
\* flight.
C16_Original ==
    \A r \in Live :
        /\ VerifyResultIsOwn(r)
        /\ Handed(r, "handler", r.payload)
        /\ Handed(r, "sign", r.payload)
        /\ Handed(r, "login", r.result)

\* C16, amended: a request's handler is handed that request's own verify
\* result (null when no verify ran).  With per-route hooks the sign hook is
\* handed the same verify result and the login hook the request's handler
\* result; with the process-wide hooks of mod.js the sign hook is handed the
\* request's handler result and there is no login hook.
C16_OwnValues ==
    \A r \in Live :
        /\ VerifyResultIsOwn(r)
        /\ Handed(r, "handler", r.payload)
        /\ Handed(r, "sign", IF variant = "hooks" THEN r.payload ELSE r.result)
        /\ Handed(r, "login", r.result)
        /\ variant = "auth" => NumCalls(r, "login") = 0

\* two requests in flight whose verify hooks returned different values, the
\* handler of each called and one already at its sign hook
C16_Witness ==
    \E r1, r2 \in Live :
        /\ r1.payload # Null /\ r2.payload # Null /\ r1.payload # r2.payload
        /\ NumCalls(r1, "handler") = 1 /\ NumCalls(r2, "handler") = 1
        /\ NumCalls(r1, "sign") = 1
        /\ variant = "hooks"

----------------------------------------------------------------------------
(* C17 *)

\* C17: a request invokes its handler at most once and each of the verify,
\* sign and login hooks at most once, on every path through the callback.
C17_AtMostOnce ==
    \A r \in Live :
        \A fn \in {"handler", "verify", "sign", "login"} : NumCalls(r, fn) <= 1

\* a request that failed in its login hook, having invoked all four once
C17_Witness ==
    \E r \in Completed :
        /\ FailedIn(r, "login")
        /\ \A fn \in {"handler", "verify", "sign", "login"} : NumCalls(r, fn) = 1

----------------------------------------------------------------------------
(* C18 *)

\* the keys the callback can look up: '/' followed by one path segment, which
\* holds no '/' because it is an element of pathname.split("/")
RequestKeys == {RouteKey(seg) : seg \in Segments}

\* C18: every key of the registry starts with '/' and contains no further '/',
\* that is, it is a key some request looks up.
C18_KeysWellFormed == \A path \in DOMAIN ROUTER_MAP : path \in RequestKeys

----------------------------------------------------------------------------
(* C19 *)

\* C19: the verify hook, the handler, the sign hook and the login hook a
\* request invokes all belong to the one entry that was in the registry when
\* the request was matched, also when Route is called for the same (path,
\* method) pair while the request is suspended at an await.
C19_SingleEntry ==
    \A r \in Live : r.matched.present => InvokesOnly(r, r.matched)

----------------------------------------------------------------------------
(* C20 *)

\* the request invoked the process-wide verify hook before its handler
VerifiedBeforeHandler(r) ==
    \A j \in CallsOf(r, "handler") : \E i \in CallsOf(r, "verify") : i < j

\* C20: in mod.js, whatever options Run was given, the handler of a route
\* registered with the verify flag is invoked only after the process-wide
\* verify hook was invoked for the request and returned, and a route registered
\* with the sign flag returns no encoded response that the process-wide sign
\* hook has not processed.
C20_AuthEnforced ==
    variant = "auth" =>
        \A r \in Live :
            /\ Truthy(r.matched.verify) => VerifiedBeforeHandler(r)
            /\ (/\ Truthy(r.matched.sign)
                /\ r.pc = "returned" /\ r.error = NoError /\ r.encoded = "ok")
                   => NumCalls(r, "sign") = 1

\* the verify half of C20 on its own
C20_VerifyEnforced ==
    variant = "auth" =>
        \A r \in Live : Truthy(r.matched.verify) => VerifiedBeforeHandler(r)

\* C20 where Run was given both hooks
C20_WhenConfigured ==
    (variant = "auth" /\ Truthy(AUTH_VERIFY) /\ Truthy(AUTH_SIGN)) =>
        \A r \in Live :
            /\ Truthy(r.matched.verify) => VerifiedBeforeHandler(r)
            /\ (/\ Truthy(r.matched.sign)
                /\ r.pc = "returned" /\ r.error = NoError /\ r.encoded = "ok")
                   => NumCalls(r, "sign") = 1
====
